---- MODULE Spec2Model ----
(***************************************************************************)
(* The HTTP response cache of ai_service: the per-path policy table, the   *)
(* LRU store with TTL, the caching middleware, the conditional-request     *)
(* handling and the cache warmup (src/ai_service/src/cache.py), and the    *)
(* invalidation endpoint (src/ai_service/src/app.py).                      *)
(*                                                                         *)
(* Time is an integer number of ticks, TicksPerSec ticks to the second, so *)
(* that time.time() has a sub-second part.  Strings are TLA+ strings and   *)
(* "|".join is string concatenation.  hashlib.md5 is modelled as an        *)
(* injective tagging of its argument (no collisions inside the bounds).    *)
(***************************************************************************)
EXTENDS Integers, Sequences, FiniteSets, Bags, TLC

VARIABLES
    now,        \* time.time(), in ticks
    tz,         \* UTC offset of the process's local time zone, in seconds
    caches,     \* LRUCache.caches: path -> OrderedDict, oldest entry first
    stats,      \* LRUCache.stats
    pending,    \* bag of dispatch coroutines suspended in `await call_next`
    resp,       \* the response the last step returned to a client, if any
    ev,         \* what the last step did: the operation, its arguments, its result
    hist,       \* per path: the (key, value) pairs set and not removed since,
                \* in the order of their last access (history variable)
    kreq,       \* key derivation: the two requests compared
    kout,       \* key derivation: their two keys
    wu          \* CacheWarmup: the loop task, its endpoint coroutines, stop()
                \* and the warmup statistics

vars == <<now, tz, caches, stats, pending, resp, ev, hist, kreq, kout, wu>>

\* Python's None, where a string is expected and where a CacheItem is
None == "None"
NoItem == [ none |-> TRUE ]

----------------------------------------------------------------------------
(* Bounds of the model *)

TicksPerSec == 2
\* config.ttl, config.stale_while_revalidate and config.max_size of the
\* modelled paths, scaled down from the policy table
TtlSec == 1
SwrSec == 1
MaxSize == 2
\* the cap on the lookups counted in LRUCache.stats (hits + misses)
MaxGets == 4
\* distinct bodies the downstream handler produces for one user
NumVersions == 2
\* dispatch coroutines suspended in the downstream handler at one time
MaxPending == 1
\* the same, where two misses of one key are to be in flight together
MaxRefreshPending == 2

\* config.max_concurrent of the warmup: endpoints warmed in one batch
MaxConcurrent == 2
\* rounds of the warmup loop
MaxRounds == 2
\* calls of start() on one scheduler
MaxStarts == 2

\* the clock stops here, at the end of the stale-while-revalidate window
MaxTime == (TtlSec + SwrSec) * TicksPerSec

----------------------------------------------------------------------------
(* CacheConfig and the policy table *)

CacheConfig(ttl, vary_by, max_size, swr, must_revalidate) ==
    [ ttl                    |-> ttl,
      vary_by                |-> vary_by,
      max_size               |-> max_size,
      compress               |-> TRUE,
      skip_cache             |-> FALSE,
      stale_while_revalidate |-> swr,
      must_revalidate        |-> must_revalidate,
      private                |-> FALSE,
      no_store               |-> FALSE ]

DefaultCacheConfig == CacheConfig(60, <<>>, 1000, 0, FALSE)

CACHE_CONFIGS ==
    [ p \in {"/health", "/system/logs", "/process", "/public/tax-rates",
             "/public/deductions", "/public/faq", "/cache/stats",
             "/cache/invalidate", "/docs", "/list/templates",
             "/system/status"} |->
        CASE p = "/health" ->
               CacheConfig(TtlSec, <<"Accept-Encoding">>, MaxSize, SwrSec, FALSE)
          [] p = "/system/logs" ->
               CacheConfig(TtlSec, <<"Authorization">>, MaxSize, 0, TRUE)
          [] p = "/process" ->
               CacheConfig(TtlSec, <<"Authorization", "Accept-Encoding">>,
                           MaxSize, 0, TRUE)
          [] p \in {"/public/tax-rates", "/public/deductions", "/public/faq"} ->
               CacheConfig(TtlSec, <<"Accept-Encoding">>, MaxSize, SwrSec, FALSE)
          [] p \in {"/cache/stats", "/cache/invalidate"} ->
               [ DefaultCacheConfig EXCEPT !.skip_cache = TRUE ]
          [] p = "/docs" ->
               CacheConfig(TtlSec, <<"Accept-Encoding">>, MaxSize, 0, FALSE)
          [] p = "/list/templates" ->
               CacheConfig(TtlSec, <<"Authorization", "Accept-Encoding">>,
                           MaxSize, SwrSec, FALSE)
          [] p = "/system/status" ->
               CacheConfig(TtlSec, <<"Authorization">>, MaxSize, SwrSec, FALSE) ]

ConfigFor(path) ==
    IF path \in DOMAIN CACHE_CONFIGS THEN CACHE_CONFIGS[path] ELSE DefaultCacheConfig

----------------------------------------------------------------------------
(* CacheItem *)

\* hashlib.md5(...).hexdigest(): injective on its argument within the bounds
md5(s) == "md5(" \o s \o ")"

generate_etag(value) == md5(value)

\* CacheItem.__init__ at clock reading t; expiry is in ticks
CacheItem(value, expiry, config, t) ==
    [ value         |-> value,
      expiry        |-> expiry,
      last_modified |-> t,
      etag          |-> generate_etag(value),
      config        |-> config ]

\* a slip: the age of the entry is taken for its expiry
is_expired_since_store(item, t) == t > item.last_modified

\* CacheItem.is_expired at clock reading t
is_expired(item, t) == t > item.expiry

----------------------------------------------------------------------------
(* OrderedDict: a sequence of [key, item], first = oldest position *)

HasKey(od, key) == \E i \in 1..Len(od) : od[i].key = key

IndexOf(od, key) == CHOOSE i \in 1..Len(od) : od[i].key = key

ItemOf(od, key) == od[IndexOf(od, key)].item

KeysOf(od) == { od[i].key : i \in 1..Len(od) }

\* del od[key]
delitem(od, key) == SelectSeq(od, LAMBDA e : e.key # key)

\* od.move_to_end(key)
move_to_end(od, key) == delitem(od, key) \o << od[IndexOf(od, key)] >>

\* a slip: od.popitem(), which pops the newest entry
popitem_last(od) == SubSeq(od, 1, Len(od) - 1)

\* od.popitem(last=False) on a non-empty dict: what is left
popitem_first(od) == Tail(od)

\* od[key] = item: an existing key keeps its position, a new key goes last
setitem(od, key, item) ==
    IF HasKey(od, key)
    THEN [ i \in 1..Len(od) |->
             IF od[i].key = key THEN [key |-> key, item |-> item] ELSE od[i] ]
    ELSE Append(od, [key |-> key, item |-> item])

----------------------------------------------------------------------------
(* LRUCache.  Each method is synchronous: it runs to its end without       *)
(* suspending, so it is one atomic function of the cache state.            *)

\* LRUCache._get_cache_for_path: the table is created on first access
get_cache_for_path(c, path) ==
    IF path \in DOMAIN c THEN c ELSE c @@ (path :> << >>)

\* a slip: an expired entry is answered absent, but stays and is not counted
LRUCache_get_keeps_expired(c, s, key, path, t) ==
    LET c1    == get_cache_for_path(c, path)
        cache == c1[path]
    IN  IF HasKey(cache, key) /\ ~ is_expired(ItemOf(cache, key), t)
        THEN [ caches |-> [c1 EXCEPT ![path] = move_to_end(cache, key)],
               stats  |-> [s EXCEPT !.hits = @ + 1],
               item   |-> ItemOf(cache, key) ]
        ELSE [ caches |-> c1,
               stats  |-> [s EXCEPT !.misses = @ + 1],
               item   |-> NoItem ]

\* LRUCache.get at clock reading t
LRUCache_get(c, s, key, path, t) ==
    LET c1    == get_cache_for_path(c, path)
        cache == c1[path]
    IN  IF HasKey(cache, key)
        THEN IF ~ is_expired(ItemOf(cache, key), t)
             THEN [ caches |-> [c1 EXCEPT ![path] = move_to_end(cache, key)],
                    stats  |-> [s EXCEPT !.hits = @ + 1],
                    item   |-> ItemOf(cache, key) ]
             ELSE [ caches |-> [c1 EXCEPT ![path] = delitem(cache, key)],
                    stats  |-> [s EXCEPT !.evictions = @ + 1, !.misses = @ + 1],
                    item   |-> NoItem ]
        ELSE [ caches |-> c1,
               stats  |-> [s EXCEPT !.misses = @ + 1],
               item   |-> NoItem ]

\* a slip: the size test is `>` for `>=`
LRUCache_set_off_by_one(c, s, key, value, path, config, t) ==
    LET c1    == get_cache_for_path(c, path)
        cache == c1[path]
        full  == Len(cache) > config.max_size
        cache1 == IF full THEN popitem_first(cache) ELSE cache
        item   == CacheItem(value, t + config.ttl * TicksPerSec, config, t)
    IN  [ caches  |-> [c1 EXCEPT ![path] = move_to_end(setitem(cache1, key, item), key)],
          stats   |-> IF full THEN [s EXCEPT !.evictions = @ + 1] ELSE s,
          raised  |-> None,
          evicted |-> IF full THEN Head(cache).key ELSE None ]

\* LRUCache.set at clock reading t (the two time.time() calls of one set,
\* for expiry and for last_modified, read the same tick).  popitem on an
\* empty table raises KeyError before anything is stored.
LRUCache_set(c, s, key, value, path, config, t) ==
    LET c1    == get_cache_for_path(c, path)
        cache == c1[path]
        full  == Len(cache) >= config.max_size
    IN  IF full /\ Len(cache) = 0
        THEN [ caches |-> c1, stats |-> s, raised |-> "KeyError", evicted |-> None ]
        ELSE LET cache1 == IF full THEN popitem_first(cache) ELSE cache
                 s1     == IF full THEN [s EXCEPT !.evictions = @ + 1] ELSE s
                 item   == CacheItem(value, t + config.ttl * TicksPerSec, config, t)
                 cache2 == setitem(cache1, key, item)
             IN  [ caches  |-> [c1 EXCEPT ![path] = move_to_end(cache2, key)],
                   stats   |-> s1,
                   raised  |-> None,
                   evicted |-> IF full
                               THEN CHOOSE k \in KeysOf(cache) \ KeysOf(cache1) : TRUE
                               ELSE None ]

\* LRUCache.delete
LRUCache_delete(c, key, path) ==
    LET c1 == get_cache_for_path(c, path)
    IN  IF HasKey(c1[path], key)
        THEN [c1 EXCEPT ![path] = delitem(@, key)]
        ELSE c1

\* a slip: clear(path) empties every table, as clear() does
LRUCache_clear_every_table(c, path) ==
    [ p \in DOMAIN c |-> << >> ]

\* LRUCache.clear(path) and LRUCache.clear() (path = None)
LRUCache_clear(c, path) ==
    IF path # None
    THEN IF path \in DOMAIN c THEN [c EXCEPT ![path] = << >>] ELSE c
    ELSE [ p \in DOMAIN c |-> << >> ]

----------------------------------------------------------------------------
(* Requests and responses *)

\* An HTTP-date header value, at its one-second resolution: the second it
\* names.  NoDate: the header is absent.
HttpDate(secs) == << "date", secs >>
NoDate == << >>

\* request.headers.get(name, default); ims is the If-Modified-Since header
HeaderGet(req, name, default) ==
    IF name \in DOMAIN req.headers /\ req.headers[name] # None
    THEN req.headers[name]
    ELSE default

Request(method, path, query, auth, enc, inm, ims) ==
    [ method  |-> method,
      path    |-> path,
      query   |-> query,
      headers |-> [ h \in {"Authorization", "Accept-Encoding", "If-None-Match"} |->
                      CASE h = "Authorization"   -> auth
                        [] h = "Accept-Encoding" -> enc
                        [] h = "If-None-Match"   -> inm ],
      ims     |-> ims ]

\* Response(content=..., status_code=...) and the headers the cache sets
Response(status, body) ==
    [ status           |-> status,
      body             |-> body,
      content_encoding |-> "",
      xcache           |-> None,
      cache_control    |-> None,
      etag             |-> None,
      last_modified    |-> NoDate ]

NoResp == [ none |-> TRUE ]

\* the body of a response object that has no `body` attribute
NoBody == "<no body>"

RECURSIVE Join(_, _)
\* sep.join(parts)
Join(parts, sep) ==
    IF Len(parts) = 0 THEN ""
    ELSE IF Len(parts) = 1 THEN parts[1]
    ELSE parts[1] \o sep \o Join(Tail(parts), sep)

\* gzip.compress(content)
gzip_compress(content) == "gzip(" \o content \o ")"

----------------------------------------------------------------------------
(* CacheMiddleware *)

\* CacheMiddleware._generate_cache_key
generate_cache_key(req, config) ==
    LET key_parts == << req.path, req.query >> \o
                     [ i \in 1..Len(config.vary_by) |->
                         HeaderGet(req, config.vary_by[i], "") ]
    IN  md5(Join(key_parts, "|"))

\* time.strftime("%a, %d %b %Y %H:%M:%S GMT", time.gmtime(t)): the UTC second
\* of t, its sub-second part dropped
strftime_gmtime(t) == HttpDate(t \div TicksPerSec)

\* time.mktime(time.strptime(date, ...)): the parsed fields, read as LOCAL
\* time of a zone `offset` seconds east of UTC, as a timestamp in ticks
mktime_strptime(date, offset) == (date[2] - offset) * TicksPerSec

\* the Cache-Control value of a cached response
cache_control_of(config) ==
    Join( << IF config.private THEN "private" ELSE "public" >>
          \o << IF config.no_store THEN "no-store"
                ELSE "max-age=" \o ToString(config.ttl) >>
          \o (IF config.must_revalidate THEN << "must-revalidate" >> ELSE << >>)
          \o (IF config.stale_while_revalidate > 0
              THEN << "stale-while-revalidate="
                      \o ToString(config.stale_while_revalidate) >>
              ELSE << >>),
          ", " )

\* CacheMiddleware._create_cached_response, in a zone `offset` east of UTC.
\* An If-Modified-Since value that does not parse (<<"junk">>) raises
\* ValueError, which is passed over.
create_cached_response(cached_item, req, offset) ==
    LET if_none_match == HeaderGet(req, "If-None-Match", None)
    IN  IF if_none_match # None /\ if_none_match # ""
           /\ if_none_match = cached_item.etag
        THEN Response(304, "")
        ELSE IF req.ims # NoDate /\ req.ims[1] = "date"
                /\ cached_item.last_modified <= mktime_strptime(req.ims, offset)
        THEN Response(304, "")
        ELSE [ Response(200, cached_item.value) EXCEPT
                 !.cache_control = cache_control_of(cached_item.config),
                 !.etag          = cached_item.etag,
                 !.last_modified = strftime_gmtime(cached_item.last_modified) ]

\* CacheMiddleware._cache_response at clock reading t: the LRUCache.set result.
\* Reading response.body of a response without that attribute raises
\* AttributeError.
cache_response(c, s, response, cache_key, path, config, t) ==
    IF config.no_store
    THEN [ caches |-> c, stats |-> s, raised |-> None, evicted |-> None ]
    ELSE IF response.body = NoBody
    THEN [ caches |-> c, stats |-> s, raised |-> "AttributeError", evicted |-> None ]
    ELSE LET content == IF config.compress /\ response.content_encoding = "gzip"
                        THEN gzip_compress(response.body)
                        ELSE response.body
         IN  LRUCache_set(c, s, cache_key, content, path, config, t)

\* CacheMiddleware._revalidate_in_background(request, path, config) is an
\* `async def`: the call in dispatch builds a coroutine object and runs none
\* of its body.  dispatch neither awaits it nor hands it to the event loop.
revalidate_in_background(req, path, config) ==
    [ coroutine |-> "_revalidate_in_background",
      path      |-> path,
      cache_key |-> generate_cache_key(req, config) ]

\* path.startswith(("/docs", "/redoc", "/openapi.json"))
IsPrefix(pre, str) ==
    Len(pre) <= Len(str) /\ SubSeq(str, 1, Len(pre)) = pre

is_docs_path(path) ==
    \E pre \in {"/docs", "/redoc", "/openapi.json"} : IsPrefix(pre, path)

\* a slip: every downstream response is cached, whatever its status
is_successful_any(response) == response.status \in Nat

\* `if response.status_code == 200`: the response is to be cached
is_successful(response) == response.status = 200

\* a slip: the test of the method and of the documentation paths is missing
bypasses_skip_only(req, config) ==
    \/ config.skip_cache
    \/ config.no_store

\* dispatch goes straight to call_next, without touching the cache
bypasses(req, config) ==
    \/ config.skip_cache
    \/ config.no_store
    \/ req.method # "GET"
    \/ is_docs_path(req.path)

----------------------------------------------------------------------------
(* Inputs *)

\* what the downstream handler answers a user with
Bodies(auth) == { auth \o "#" \o ToString(v) : v \in 1..NumVersions }

\* the downstream handler's answers to a request of `auth`: a 200 with one of
\* the user's bodies, or an error status
DownstreamResponses(auth) ==
    { Response(200, b) : b \in Bodies(auth) } \cup { Response(500, "error") }

\* GET /health?param=i, one query more than the table holds, and an upload
StoreRequests ==
    { Request("GET", "/health", "param=" \o ToString(i), "u1", None, None, NoDate) :
        i \in 0..MaxSize }
    \cup { Request("POST", "/process", "", "u1", None, None, NoDate) }

\* GET /health by two users and GET /system/logs by one, with and without an
\* If-None-Match that names a body of the handler, and an upload
HttpRequests ==
    { Request("GET", "/health", "", a, None, inm, NoDate) :
        a \in {"u1", "u2"}, inm \in {None, generate_etag("u1#1")} }
    \cup { Request("GET", "/system/logs", "", "u1", None, inm, NoDate) :
        inm \in {None, generate_etag("u1#1")} }
    \cup { Request("POST", "/process", "", "u1", None, None, NoDate) }

\* GET /health with and without an If-Modified-Since: an HTTP date of one of
\* the seconds of the run, or a value that does not parse
CondRequests ==
    { Request("GET", "/health", "", "u1", None, None, ims) :
        ims \in {NoDate, << "junk" >>} \cup { HttpDate(sec) : sec \in 0..(MaxTime \div TicksPerSec) } }
    \cup { Request("POST", "/process", "", "u1", None, None, NoDate) }

\* the zones the process may run in: west of, at and east of UTC (seconds)
TzOffsets == {-1, 0, 1}

\* the header values of the key derivation, with and without the separator
KeyHeaderValues == {"", "|", "a", "a|"}

KeyRequests ==
    { Request("GET", path, q, auth, enc, None, NoDate) :
        path \in {"/health", "/process"}, q \in {"", "x=1"},
        auth \in KeyHeaderValues, enc \in KeyHeaderValues }

PathsOf(reqs) == { r.path : r \in { q \in reqs : q.method = "GET" } }

KeysOf2(reqs, path) ==
    { generate_cache_key(r, ConfigFor(path)) :
        r \in { q \in reqs : q.method = "GET" /\ q.path = path } }

----------------------------------------------------------------------------
(* Observations and history *)

Table(path) == IF path \in DOMAIN caches THEN caches[path] ELSE << >>

HistOf(path) == IF path \in DOMAIN hist THEN hist[path] ELSE << >>

\* history: the key was accessed (a get that hit)
Touch(h, key) ==
    SelectSeq(h, LAMBDA e : e.key # key) \o SelectSeq(h, LAMBDA e : e.key = key)

\* history: the keys were removed (delete, clear, eviction)
Drop(h, keys) == SelectSeq(h, LAMBDA e : e.key \notin keys)

\* history: the body and the Content-Encoding of `response` were stored under
\* key at time t
Put(h, key, response, t) ==
    Append(Drop(h, {key}),
           [ key |-> key, value |-> response.body,
             content_encoding |-> response.content_encoding, at |-> t ])

NoEv ==
    [ op |-> "none", method |-> None, path |-> None, key |-> None, auth |-> None,
      lookup |-> None, got |-> None, stored |-> None, evicted |-> None,
      error |-> None,
      inm_match |-> FALSE, ims_echo |-> FALSE, in_window |-> FALSE,
      coroutine |-> NoItem ]

\* a dispatch coroutine suspended in `await call_next(request)`: the locals
\* the rest of dispatch reads, the requesting user (whom the handler answers)
\* and what its lookup had found
Task(kind, method, path, cache_key, auth, lookup, inm_match) ==
    [ kind |-> kind, method |-> method, path |-> path, cache_key |-> cache_key,
      auth |-> auth, lookup |-> lookup, inm_match |-> inm_match ]

----------------------------------------------------------------------------
(* CacheWarmup: configuration and state *)

\* CacheWarmupConfig as init_cache_warmup builds it, max_concurrent scaled
WarmupConfig ==
    [ enabled        |-> TRUE,
      interval       |-> 300,
      max_concurrent |-> MaxConcurrent,
      retry_attempts |-> 3,
      retry_delay    |-> 5 ]

\* WARMUP_CONFIGS.items(), in the order of the table: three of its entries,
\* with the query string that _create_warmup_request joins from "params"
WARMUP_CONFIGS ==
    << [ path |-> "/public/tax-rates", priority |-> 1, query |-> "",
         warmup_interval |-> 1800 ],
       [ path |-> "/list/templates", priority |-> 2,
         query |-> "limit=50&sort=popular", warmup_interval |-> 900 ],
       [ path |-> "/system/status", priority |-> 1, query |-> "",
         warmup_interval |-> 300 ] >>

\* a slip: the endpoints are taken in the order of the table
unsorted(items) == items

\* sorted(items, key=lambda x: x[1]["priority"]): ascending priority, and
\* the order of the table among equal priorities (sorted is stable)
sorted_by_priority(items) ==
    LET top == CHOOSE k \in { items[i].priority : i \in 1..Len(items) } :
                   \A i \in 1..Len(items) : items[i].priority <= k
        RECURSIVE from(_)
        from(k) == IF k > top THEN << >>
                   ELSE SelectSeq(items, LAMBDA e : e.priority = k) \o from(k + 1)
    IN  IF items = << >> THEN << >> ELSE from(1)

\* the paths of `endpoints` in _warmup_endpoints
WarmupOrder ==
    LET endpoints == sorted_by_priority(WARMUP_CONFIGS)
    IN  [ i \in 1..Len(endpoints) |-> endpoints[i].path ]

WarmupPaths == { WarmupOrder[i] : i \in 1..Len(WarmupOrder) }

\* WARMUP_CONFIGS[path]
WarmupEntry(path) ==
    WARMUP_CONFIGS[CHOOSE i \in 1..Len(WARMUP_CONFIGS) : WARMUP_CONFIGS[i].path = path]

\* range(0, len(endpoints), max_concurrent): the number of batches
NumBatches ==
    (Len(WarmupOrder) + WarmupConfig.max_concurrent - 1) \div WarmupConfig.max_concurrent

\* endpoints[i:i + max_concurrent] of the b-th batch
Batch(b) ==
    { WarmupOrder[j] : j \in { k \in 1..Len(WarmupOrder) :
          /\ k > (b - 1) * WarmupConfig.max_concurrent
          /\ k <= b * WarmupConfig.max_concurrent } }

\* CacheWarmup._create_warmup_request(path, WARMUP_CONFIGS[path]): a GET with
\* the params as query string and the header Accept-Encoding: gzip
create_warmup_request(path) ==
    Request("GET", path, WarmupEntry(path).query, None, "gzip", None, NoDate)

\* the attributes of an LRUCache object
LRUCache_attributes ==
    { "default_capacity", "caches", "stats", "_get_cache_for_path",
      "get", "set", "delete", "clear", "get_stats" }

\* `except Exception` catches err: asyncio.CancelledError derives from
\* BaseException, not from Exception
except_Exception_catches(err) == err # "CancelledError"

\* a _warmup_endpoint coroutine wrapped in a task by asyncio.gather.
\* pc: idle (no task), new (not yet run), app (in `await self.app(request)`),
\* retry_sleep (in `await asyncio.sleep(retry_delay)`), done, cancelled.
\* cancel: Task.cancel() was called and CancelledError is yet to be thrown.
\* ok200: the handler answered 200 in this warming (history)
Child(pc, attempt, cancel, ok200) ==
    [ pc |-> pc, attempt |-> attempt, cancel |-> cancel, ok200 |-> ok200 ]

\* warmup_stats[path] before the first update of the path
NoWarmupStats ==
    [ total_attempts |-> 0, successful_attempts |-> 0, failed_attempts |-> 0,
      last_error |-> None, last_success |-> None, last_attempt |-> None ]

\* CacheWarmup._update_warmup_stats at clock reading t
update_warmup_stats(ws, path, success, error, t) ==
    LET st  == IF path \in DOMAIN ws THEN ws[path] ELSE NoWarmupStats
        st1 == [ st EXCEPT !.total_attempts = @ + 1, !.last_attempt = ToString(t) ]
        st2 == IF success
               THEN [ st1 EXCEPT !.successful_attempts = @ + 1,
                                 !.last_success = ToString(t) ]
               ELSE [ st1 EXCEPT !.failed_attempts = @ + 1, !.last_error = error ]
    IN  (path :> st2) @@ ws

\* timedelta.seconds of a difference of `ticks` ticks: the seconds within the
\* day, the whole days being in timedelta.days
timedelta_seconds(ticks) == (ticks \div TicksPerSec) % 86400

\* `last_warmup and (datetime.now() - last_warmup).seconds <
\* self.config.interval` at clock reading t; last_warmup is << >> for a path
\* not in self.last_warmup, and << t0 >> for the reading t0 stored there
warmed_recently(last_warmup, t) ==
    /\ last_warmup # NoDate
    /\ timedelta_seconds(t - last_warmup[1]) < WarmupConfig.interval

\* CacheWarmup.__init__, and stop() not yet called.
\* task: none, or where the loop task is: new (created, not yet run), gather
\* (in `await asyncio.gather(*tasks)`), interval_sleep, finished, cancelled.
\* forced, fbatch, fchild: the pass that the handler of POST /cache/warm runs
\* (none, gather, returned), its batch and its endpoint coroutines.
\* starts: the calls of start() so far, where they are counted.  orphans:
\* the loop tasks that are alive and that self._warmup_task has ceased to
\* refer to
WuInit ==
    [ task         |-> "none",
      starts       |-> 0,
      orphans      |-> 0,
      forced       |-> "none",
      fbatch       |-> 0,
      fchild       |-> [ p \in WarmupPaths |-> Child("idle", 0, FALSE, FALSE) ],
      must_cancel  |-> FALSE,
      batch        |-> 0,
      round        |-> 0,
      child        |-> [ p \in WarmupPaths |-> Child("idle", 0, FALSE, FALSE) ],
      warmup_stats |-> << >>,
      last_warmup  |-> [ p \in WarmupPaths |-> NoDate ],
      stop         |-> "idle",
      stop_raised  |-> None ]

----------------------------------------------------------------------------
(* The cache state machine *)

Init ==
    /\ now = 0
    /\ tz = 0
    /\ caches = << >>
    /\ stats = [ hits |-> 0, misses |-> 0, evictions |-> 0 ]
    /\ pending = EmptyBag
    /\ resp = NoResp
    /\ ev = NoEv
    /\ hist = << >>
    /\ kreq = << >>
    /\ kout = << >>
    /\ wu = WuInit

\* one tick passes
Tick ==
    /\ now < MaxTime
    /\ now' = now + 1
    /\ resp' = NoResp
    /\ ev' = [ NoEv EXCEPT !.op = "tick" ]
    /\ UNCHANGED << tz, caches, stats, pending, hist, kreq, kout, wu >>

\* CacheMiddleware.dispatch, from its start to its return or to its
\* suspension in `await call_next(request)`, with at most max_pending
\* dispatch coroutines suspended at one time
DispatchWithin(req, max_pending) ==
    LET path      == req.path
        config    == ConfigFor(path)
        cache_key == generate_cache_key(req, config)
        g         == LRUCache_get(caches, stats, cache_key, path, now)
        present   == HasKey(Table(path), cache_key)
        old       == ItemOf(Table(path), cache_key)
        age       == now - old.last_modified
        lookup    == IF g.item # NoItem THEN "hit"
                     ELSE IF present THEN "expired" ELSE "absent"
        auth      == HeaderGet(req, "Authorization", None)
        e         == [ NoEv EXCEPT
                         !.method = req.method,
                         !.path = path, !.auth = auth, !.key = cache_key,
                         !.lookup = lookup,
                         !.inm_match = present /\ HeaderGet(req, "If-None-Match", None) = old.etag,
                         !.ims_echo = present /\ req.ims = strftime_gmtime(old.last_modified),
                         !.in_window = /\ present
                                       /\ age > config.ttl * TicksPerSec
                                       /\ age < (config.ttl + config.stale_while_revalidate)
                                                  * TicksPerSec ]
    IN  IF bypasses(req, config)
        THEN /\ BagCardinality(pending) < max_pending
             /\ pending' = pending (+) SetToBag({ Task("forward", req.method, path, None, auth,
                                                       None, FALSE) })
             /\ resp' = NoResp
             /\ ev' = [ NoEv EXCEPT !.op = "forward", !.method = req.method,
                                    !.path = path, !.auth = auth ]
             /\ UNCHANGED << now, tz, caches, stats, hist, kreq, kout, wu >>
        ELSE /\ g.stats.hits + g.stats.misses <= MaxGets
             /\ caches' = g.caches
             /\ stats' = g.stats
             /\ IF g.item # NoItem
                THEN \* the clock may move between is_expired() in LRUCache.get
                     \* and is_expired() in dispatch
                     \E d \in {0, 1} :
                        LET t2    == now + d
                            r     == create_cached_response(g.item, req, tz)
                            stale == is_expired(g.item, t2)
                                     /\ config.stale_while_revalidate > 0
                        IN  /\ t2 <= MaxTime
                            /\ now' = t2
                            /\ resp' = [ r EXCEPT !.xcache = IF stale THEN "STALE" ELSE "HIT" ]
                            /\ ev' = [ e EXCEPT
                                 !.op = IF stale THEN "stale" ELSE "hit",
                                 !.got = g.item.value,
                                 !.coroutine = IF stale
                                               THEN revalidate_in_background(req, path, config)
                                               ELSE NoItem ]
                            /\ hist' = (path :> Touch(HistOf(path), cache_key)) @@ hist
                            /\ UNCHANGED pending
                ELSE /\ BagCardinality(pending) < max_pending
                     /\ pending' = pending (+) SetToBag({ Task("miss", req.method, path, cache_key, auth,
                                                               lookup, e.inm_match) })
                     /\ resp' = NoResp
                     /\ ev' = [ e EXCEPT !.op = "miss" ]
                     /\ hist' = (path :> Drop(HistOf(path), {cache_key})) @@ hist
                     /\ UNCHANGED now
             /\ UNCHANGED << tz, kreq, kout, wu >>

\* CacheMiddleware.dispatch under the bound of the model
Dispatch(req) == DispatchWithin(req, MaxPending)

\* the downstream handler returns `response` to a suspended dispatch, which
\* runs to its end
DownstreamReturn(task, response) ==
    LET config == ConfigFor(task.path)
        e      == [ NoEv EXCEPT !.method = task.method,
                                !.path = task.path, !.auth = task.auth,
                                !.key = task.cache_key, !.lookup = task.lookup,
                                !.inm_match = task.inm_match ]
        w      == cache_response(caches, stats, response, task.cache_key,
                                 task.path, config, now)
    IN  /\ BagIn(task, pending)
        /\ pending' = pending (-) SetToBag({task})
        /\ IF task.kind = "miss" /\ is_successful(response)
           THEN /\ caches' = w.caches
                /\ stats' = w.stats
                /\ IF w.raised # None
                   THEN /\ resp' = NoResp
                        /\ ev' = [ e EXCEPT !.op = "raised", !.error = w.raised ]
                        /\ UNCHANGED hist
                   ELSE /\ resp' = [ response EXCEPT !.xcache = "MISS" ]
                        /\ ev' = [ e EXCEPT !.op = "stored",
                                            !.stored = ItemOf(w.caches[task.path],
                                                              task.cache_key).value,
                                            !.evicted = w.evicted ]
                        /\ hist' = (task.path :>
                                      Put(Drop(HistOf(task.path), {w.evicted}),
                                          task.cache_key, response, now)) @@ hist
           ELSE /\ resp' = response
                /\ ev' = [ e EXCEPT !.op = "passed" ]
                /\ UNCHANGED << caches, stats, hist >>
        /\ UNCHANGED << now, tz, kreq, kout, wu >>

\* a slip: dispatch catches the handler's error and answers 500 in its place
DownstreamRaise_translated(task) ==
    /\ BagIn(task, pending)
    /\ pending' = pending (-) SetToBag({task})
    /\ resp' = Response(500, "error")
    /\ ev' = [ NoEv EXCEPT !.op = "passed", !.method = task.method,
                           !.path = task.path, !.auth = task.auth,
                           !.key = task.cache_key, !.lookup = task.lookup,
                           !.error = "HandlerError",
                           !.inm_match = task.inm_match ]
    /\ UNCHANGED << now, tz, caches, stats, hist, kreq, kout, wu >>

\* the downstream handler raises HandlerError: dispatch has no handler for
\* it, so the error leaves dispatch as it is and no response is built
DownstreamRaise(task) ==
    /\ BagIn(task, pending)
    /\ pending' = pending (-) SetToBag({task})
    /\ resp' = NoResp
    /\ ev' = [ NoEv EXCEPT !.op = "raised", !.method = task.method,
                           !.path = task.path, !.auth = task.auth,
                           !.key = task.cache_key, !.lookup = task.lookup,
                           !.error = "HandlerError",
                           !.inm_match = task.inm_match ]
    /\ UNCHANGED << now, tz, caches, stats, hist, kreq, kout, wu >>

\* LRUCache.delete(key, path)
Delete(key, path) ==
    /\ caches' = LRUCache_delete(caches, key, path)
    /\ resp' = NoResp
    /\ ev' = [ NoEv EXCEPT !.op = "delete", !.path = path, !.key = key ]
    /\ hist' = (path :> Drop(HistOf(path), {key})) @@ hist
    /\ UNCHANGED << now, tz, stats, pending, kreq, kout, wu >>

\* LRUCache.clear(path) and LRUCache.clear()
Clear(path) ==
    /\ caches' = LRUCache_clear(caches, path)
    /\ resp' = NoResp
    /\ ev' = [ NoEv EXCEPT !.op = "clear", !.path = path ]
    /\ hist' = [ p \in DOMAIN hist |-> IF path = None \/ p = path THEN << >> ELSE hist[p] ]
    /\ UNCHANGED << now, tz, stats, pending, kreq, kout, wu >>

\* the cache under the requests `reqs`
NextOn(reqs) ==
    \/ Tick
    \/ \E req \in reqs : Dispatch(req)
    \/ \E task \in BagToSet(pending) :
          \E response \in DownstreamResponses(task.auth) : DownstreamReturn(task, response)
    \/ \E task \in BagToSet(pending) : DownstreamRaise(task)
    \/ \E path \in PathsOf(reqs) : \E key \in KeysOf2(reqs, path) : Delete(key, path)
    \/ \E path \in PathsOf(reqs) \cup {None} : Clear(path)

Next == NextOn(StoreRequests)

Spec == Init /\ [][Next]_vars

----------------------------------------------------------------------------
(* Claims on the LRU store, under Spec *)

\* the step looked (path, key) up in the store: LRUCache.get ran
IsGet(e) == e.op \in {"hit", "stale", "miss"}

\* C1: for every path, the number of entries of its table is at most the
\* max_size of the path's config, in every state (the tables are empty until
\* the first set), whatever requests, deletes and clears interleave.
C1_SizeBound ==
    \A path \in DOMAIN caches : Len(caches[path]) <= ConfigFor(path).max_size

\* C1 witness: a set into a full table has returned, with a request in flight
C1_Witness ==
    /\ ev.op = "stored"
    /\ ev.evicted # None
    /\ Len(Table(ev.path)) = ConfigFor(ev.path).max_size

\* C2: when set evicts an entry, the evicted key is the one whose last access
\* (a get that hit, or a set) is the oldest among the entries of the table:
\* the head of the access history of the path before the step.
C2_EvictsLeastRecentlyAccessed ==
    [][ (ev'.op = "stored" /\ ev'.evicted # None) =>
            /\ HistOf(ev'.path) # << >>
            /\ ev'.evicted = Head(HistOf(ev'.path)).key ]_vars

\* C2 witness: a set has evicted an entry while an entry stored earlier, and
\* promoted by a hit since, stays in the table
C2_Witness ==
    /\ ev.op = "stored"
    /\ ev.evicted # None
    /\ stats.hits >= 1
    /\ Len(Table(ev.path)) = 2
    /\ Table(ev.path)[1].key # ev.key
    /\ Table(ev.path)[1].item.last_modified < now

\* C3: a get(key, path) after set(key, value, path, config), with no delete,
\* clear or eviction of the key since and less than config.ttl seconds after
\* the set, returns an entry with exactly the value set, and adds one to hits.
C3_GetAfterSet ==
    [][ \A i \in 1..Len(HistOf(ev'.path)) :
           LET h == HistOf(ev'.path)[i]
           IN  ( /\ IsGet(ev')
                 /\ h.key = ev'.key
                 /\ now - h.at < ConfigFor(ev'.path).ttl * TicksPerSec )
               => /\ ev'.lookup = "hit"
                  /\ ev'.got = h.value
                  /\ stats'.hits = stats.hits + 1 ]_vars

\* C3 witness: a get has hit an entry that was set a while before
C3_Witness ==
    /\ ev.op = "hit"
    /\ ev.got = "u1#2"
    /\ HasKey(Table(ev.path), ev.key)
    /\ ItemOf(Table(ev.path), ev.key).last_modified < now

\* C4 (as amended): a get for a key whose entry has expired (the clock is
\* past its expiry) returns absent, removes the entry and adds one to
\* evictions and one to misses; a get for a key that is not in the table adds
\* one to misses and none to evictions; and the request is answered by the
\* downstream handler, with X-Cache: MISS when that answer has status 200 and
\* with no X-Cache header otherwise.
C4_ExpiredGet ==
    [][ /\ ( IsGet(ev') /\ HasKey(Table(ev'.path), ev'.key)
             /\ now > ItemOf(Table(ev'.path), ev'.key).expiry )
           => /\ ev'.op = "miss" /\ ev'.lookup = "expired" /\ ev'.got = None
              /\ ~ HasKey(caches'[ev'.path], ev'.key)
              /\ stats'.evictions = stats.evictions + 1
              /\ stats'.misses = stats.misses + 1
              /\ stats'.hits = stats.hits
              /\ \E t \in BagToSet(pending') :
                    t.kind = "miss" /\ t.path = ev'.path /\ t.cache_key = ev'.key
        /\ ( IsGet(ev') /\ ~ HasKey(Table(ev'.path), ev'.key) )
           => /\ ev'.op = "miss" /\ ev'.lookup = "absent" /\ ev'.got = None
              /\ stats'.evictions = stats.evictions
              /\ stats'.misses = stats.misses + 1
              /\ stats'.hits = stats.hits
        /\ ( ev'.op \in {"stored", "passed"} /\ ev'.lookup \in {"expired", "absent"} )
           => /\ resp' # NoResp
              /\ resp'.xcache = IF resp'.status = 200 THEN "MISS" ELSE None ]_vars

\* C4 witness: the request whose get found the entry expired has been
\* answered by the downstream handler
C4_Witness ==
    /\ ev.op = "stored"
    /\ ev.lookup = "expired"
    /\ resp.xcache = "MISS"
    /\ stats.evictions >= 1

\* C4 as stated: the request whose get found the entry expired is answered
\* with X-Cache: MISS (whatever the status of the downstream answer)
C4_Original ==
    ( ev.op \in {"stored", "passed"} /\ ev.lookup = "expired" )
    => ( resp # NoResp /\ resp.xcache = "MISS" )

----------------------------------------------------------------------------
(* The cache under requests of two users and conditional requests *)

SpecHttp == Init /\ [][NextOn(HttpRequests)]_vars

InitCond ==
    /\ now = 0
    /\ tz \in TzOffsets
    /\ caches = << >>
    /\ stats = [ hits |-> 0, misses |-> 0, evictions |-> 0 ]
    /\ pending = EmptyBag
    /\ resp = NoResp
    /\ ev = NoEv
    /\ hist = << >>
    /\ kreq = << >>
    /\ kout = << >>
    /\ wu = WuInit

SpecCond == InitCond /\ [][NextOn(CondRequests)]_vars

----------------------------------------------------------------------------
(* Key derivation on its own: two requests, then their keys *)

InitKey ==
    /\ now = 0
    /\ tz = 0
    /\ caches = << >>
    /\ stats = [ hits |-> 0, misses |-> 0, evictions |-> 0 ]
    /\ pending = EmptyBag
    /\ resp = NoResp
    /\ ev = NoEv
    /\ hist = << >>
    /\ kreq \in { << r1, r2 >> : r1 \in KeyRequests, r2 \in KeyRequests }
    /\ kout = << >>
    /\ wu = WuInit

\* dispatch derives the key of each of the two requests
DeriveKeys ==
    /\ kout = << >>
    /\ kout' = << generate_cache_key(kreq[1], ConfigFor(kreq[1].path)),
                  generate_cache_key(kreq[2], ConfigFor(kreq[2].path)) >>
    /\ UNCHANGED << now, tz, caches, stats, pending, resp, ev, hist, kreq, wu >>

SpecKey == InitKey /\ [][DeriveKeys]_vars

\* the values of the vary_by headers of a request, in order
VaryValues(req) ==
    [ i \in 1..Len(ConfigFor(req.path).vary_by) |->
        HeaderGet(req, ConfigFor(req.path).vary_by[i], "") ]

----------------------------------------------------------------------------
(* Claims on the middleware *)

\* C5: key derivation is deterministic and separating: two requests with the
\* same path, query and vary_by header values get the same key, and two
\* requests with the same path and query whose vary_by header values differ
\* in some header get different keys, for all header values.
C5_Original ==
    ( kout # << >> /\ kreq[1].path = kreq[2].path /\ kreq[1].query = kreq[2].query )
    => ( (VaryValues(kreq[1]) = VaryValues(kreq[2])) <=> (kout[1] = kout[2]) )

\* C6: a response cached for a request with one Authorization value is never
\* served from the cache to a request with another Authorization value: a
\* body served from the cache is one the handler produced for the requester.
C6_Original ==
    ( ev.op \in {"hit", "stale"} /\ resp.status = 200 )
    => resp.body \in Bodies(ev.auth)

\* C7: a GET whose If-None-Match equals the etag of the entry cached for its
\* key is answered 304 with no body, whether the entry is fresh, past its ttl
\* or inside its stale-while-revalidate window.
C7_Original ==
    ( ev.inm_match /\ ev.op \in {"hit", "stale", "stored", "passed"} )
    => ( resp.status = 304 /\ resp.body = "" )

\* C8: a GET for a fresh cached entry whose If-Modified-Since is exactly the
\* Last-Modified value the cache emits for the entry is answered 304, for
\* every store time.
C8_Original ==
    ( ev.ims_echo /\ ev.op = "hit" ) => resp.status = 304

\* C9: with stale_while_revalidate = S > 0, a GET for a cached key that
\* arrives after ttl and before ttl + S seconds since the store is answered
\* at once with the stale payload and X-Cache: STALE.
C9_Original ==
    ( ev.in_window /\ IsGet(ev) )
    => ( ev.op = "stale" /\ resp # NoResp /\ resp.xcache = "STALE"
         /\ resp.body = ev.got )

\* C10: whenever the interceptor triggers a background revalidation, the
\* revalidation re-invokes the downstream handler for the same request: when
\* dispatch returns the STALE response, the event loop holds a revalidation
\* task for the key, waiting to call the handler.
C10_Original ==
    ( ev.op = "stale" )
    => \E t \in BagToSet(pending) :
          t.kind = "revalidate" /\ t.path = ev.path /\ t.cache_key = ev.key

----------------------------------------------------------------------------
(* The invalidation endpoint (src/ai_service/src/app.py) *)

\* cache.delete(*args): LRUCache.delete takes (key, path); a call with another
\* number of arguments raises TypeError before the method body runs
call_delete(c, args) ==
    IF Len(args) # 2
    THEN [ raised |-> "TypeError", caches |-> c ]
    ELSE [ raised |-> None, caches |-> LRUCache_delete(c, args[1], args[2]) ]

\* invalidate_cache(path): cache.delete(path) inside try; any Exception is
\* turned into HTTPException(500)
invalidate_cache(c, path) ==
    LET d == call_delete(c, << path >>)
    IN  IF d.raised # None
        THEN [ caches |-> c, response |-> Response(500, "CACHE_ERROR") ]
        ELSE [ caches |-> d.caches, response |-> Response(200, "success") ]

\* POST /cache/invalidate with body {"path": path}: dispatch forwards it
\* (skip_cache, and not a GET) and returns the endpoint's response as it is
Invalidate(path) ==
    LET r == invalidate_cache(caches, path)
    IN  /\ bypasses(Request("POST", "/cache/invalidate", "", None, None, None, NoDate),
                    ConfigFor("/cache/invalidate"))
        /\ caches' = r.caches
        /\ resp' = r.response
        /\ ev' = [ NoEv EXCEPT !.op = "invalidate", !.method = "POST", !.path = path ]
        /\ UNCHANGED << now, tz, stats, pending, hist, kreq, kout, wu >>

----------------------------------------------------------------------------
(* The cache under requests that bypass it, and the invalidation endpoint *)

\* a cacheable GET, a documentation path, a skip_cache path and an upload
BypassRequests ==
    { Request("GET", path, "", "u1", None, None, NoDate) :
        path \in {"/health", "/docs", "/cache/stats"} }
    \cup { Request("POST", "/process", "", "u1", None, None, NoDate) }

\* (the clock stands still: every lookup is within ttl of the store)
NextBypass ==
    \/ \E req \in BypassRequests : Dispatch(req)
    \/ \E task \in BagToSet(pending) :
          \E response \in DownstreamResponses(task.auth) : DownstreamReturn(task, response)
    \/ \E task \in BagToSet(pending) : DownstreamRaise(task)
    \/ Invalidate("/health")

SpecBypass == Init /\ [][NextBypass]_vars

----------------------------------------------------------------------------
(* The cache-miss path: plain, gzip-encoded, failed and body-less answers *)

MissRequests ==
    { Request("GET", "/health", "", "u1", "gzip", None, NoDate) }

\* the downstream handler's answers: a 200 with one of the user's bodies, a
\* 200 that carries Content-Encoding: gzip, an error status, and a 200 whose
\* response object has no `body` attribute
MissResponses(auth) ==
    DownstreamResponses(auth)
    \cup { [ Response(200, auth \o "#1") EXCEPT !.content_encoding = "gzip" ],
           Response(200, NoBody) }

NextMiss ==
    \/ Tick
    \/ \E req \in MissRequests : Dispatch(req)
    \/ \E task \in BagToSet(pending) :
          \E response \in MissResponses(task.auth) : DownstreamReturn(task, response)
    \/ \E task \in BagToSet(pending) : DownstreamRaise(task)

SpecMiss == Init /\ [][NextMiss]_vars

\* LRUCache.caches[path] of the table map c
TableIn(c, path) == IF path \in DOMAIN c THEN c[path] ELSE << >>

\* the step is the lookup of a request that goes on to the downstream
\* handler, and all it does to the tables is remove the entry of its own key
LookupEffect ==
    \A p \in DOMAIN caches' :
        caches'[p] = IF p = ev'.path THEN delitem(Table(p), ev'.key) ELSE Table(p)

----------------------------------------------------------------------------
(* Claims on hits, invalidation, bypass and the miss path *)

\* C11: a second GET for the same key within ttl of the MISS that populated
\* the entry is answered X-Cache: HIT with a body identical to the body of
\* that MISS response and the same Content-Encoding, for every policy and
\* every downstream response (also one that carries Content-Encoding: gzip).
C11_Original ==
    ( ev.op = "hit" /\ resp.status = 200 )
    => \E i \in 1..Len(HistOf(ev.path)) :
          LET h == HistOf(ev.path)[i]
          IN  /\ h.key = ev.key
              /\ resp.xcache = "HIT"
              /\ resp.body = h.value
              /\ resp.content_encoding = h.content_encoding

\* C12: after the invalidation endpoint has been called for a path P (the call
\* test_cache_invalidation expects to be answered 200), every entry cached
\* for P is gone: the next GET for P is a miss, answered by the downstream
\* handler.
C12_Original ==
    [][ ( ev.op = "invalidate" /\ IsGet(ev') /\ ev'.path = ev.path )
        => ev'.op = "miss" ]_vars

C14_Original ==
    [][ ( /\ ev.op = "passed" /\ ev.method = "POST" /\ resp.status = 200
          /\ ev'.op \in {"forward", "hit", "stale", "miss"}
          /\ ev'.method = "POST" /\ ev'.path = ev.path /\ ev'.auth = ev.auth )
        => ( resp' # NoResp /\ resp'.status = 200 /\ resp'.xcache = "HIT" ) ]_vars

\* C15 (as amended): on the cache-miss path an entry is written only if the
\* downstream response has status 200; a response with another status is
\* passed through as it is and its return leaves every table and counter as
\* they were.  The only change such a request makes to a table is made by its
\* lookup, which removes the entry of its own key when that entry had expired.
C15_OnlySuccessStored ==
    [][ /\ ( ev'.op = "stored" ) => resp'.status = 200
        /\ ( ev'.op = "passed" /\ ev'.key # None )
           => /\ resp'.status # 200
              /\ resp'.xcache = None
              /\ caches' = caches /\ stats' = stats
        /\ ( ev'.op = "miss" ) => LookupEffect ]_vars

\* C15 witness: a downstream answer with another status has been passed
\* through for a request whose lookup had removed its expired entry
C15_Witness ==
    /\ ev.op = "passed" /\ ev.key # None
    /\ ev.lookup = "expired"
    /\ resp.status = 500
    /\ ~ HasKey(Table(ev.path), ev.key)

\* C15 as stated: when the downstream response has another status than 200,
\* the set of entries of every table is the same as before the request: the
\* return changes no table and the lookup of the request had removed nothing.
C15_Original ==
    [][ ( ev'.op = "passed" /\ ev'.key # None )
        => ( caches' = caches /\ ev'.lookup = "absent" ) ]_vars

\* C16 (as amended): when the downstream handler raises on the cache-miss
\* path, the same error leaves dispatch (no response is built in its place)
\* and the raise changes no table and no counter.  The only change the
\* request makes to a table is made by its lookup, which removes the entry of
\* its own key when that entry had expired.
C16_HandlerErrorPropagates ==
    [][ /\ ( ev'.error = "HandlerError" )
           => /\ ev'.op = "raised"
              /\ resp' = NoResp
              /\ caches' = caches /\ stats' = stats
              /\ BagCardinality(pending') = BagCardinality(pending) - 1
        /\ ( ev'.op = "miss" ) => LookupEffect ]_vars

\* C16 witness: the handler has raised for a request whose lookup had removed
\* its expired entry
C16_Witness ==
    /\ ev.op = "raised" /\ ev.error = "HandlerError"
    /\ ev.key # None
    /\ ev.lookup = "expired"
    /\ resp = NoResp

\* C16 as stated: when the downstream handler raises on the cache-miss path
\* the error reaches the caller and no entry has been added, replaced or
\* removed by that request: the lookup of the request had removed nothing.
C16_Original ==
    [][ ( ev'.error = "HandlerError" /\ ev'.key # None )
        => ( ev'.op = "raised" /\ caches' = caches /\ ev'.lookup = "absent" ) ]_vars

\* C17: the interceptor fails open: when a cache-layer step of a request
\* raises (here the store of the downstream response), the request is still
\* served with the downstream handler's response.
C17_Original ==
    ( ev.op = "raised" /\ ev.error # "HandlerError" )
    => ( resp # NoResp /\ resp.status = 200 )

----------------------------------------------------------------------------
(* CacheWarmup: the loop task, the endpoint coroutines and stop().  The    *)
(* event loop runs one coroutine at a time, from one suspension point to   *)
(* the next: each action is one such run.                                  *)

\* warmup_stats.get(path), with the counters at 0 before the first update
StatsOf(ws, path) == IF path \in DOMAIN ws THEN ws[path] ELSE NoWarmupStats

\* asyncio.gather(*tasks) of the b-th batch: one new task per endpoint
spawn(w, b) ==
    [ w EXCEPT !.task = "gather", !.batch = b,
               !.child = [ p \in WarmupPaths |->
                             IF p \in Batch(b) THEN Child("new", 0, FALSE, FALSE)
                             ELSE @[p] ] ]

\* CacheWarmup.start()
Start ==
    /\ wu.task = "none" /\ wu.stop = "idle"
    /\ WarmupConfig.enabled
    /\ wu' = [ wu EXCEPT !.task = "new" ]
    /\ ev' = NoEv
    /\ UNCHANGED << now, tz, caches, stats, pending, resp, hist, kreq, kout >>

\* the loop task runs for the first time: _warmup_loop enters
\* _warmup_endpoints and suspends in the gather of the first batch
LoopRun ==
    /\ wu.task = "new" /\ ~ wu.must_cancel
    /\ wu' = spawn([ wu EXCEPT !.round = 1 ], 1)
    /\ ev' = NoEv
    /\ UNCHANGED << now, tz, caches, stats, pending, resp, hist, kreq, kout >>

\* _warmup_endpoint runs to its first `await self.app(request)`, or returns
\* at once if the path was warmed less than `interval` seconds ago
ChildStart(p) ==
    LET last_warmup == wu.last_warmup[p]
    IN  /\ wu.child[p].pc = "new" /\ ~ wu.child[p].cancel
        /\ wu' = IF warmed_recently(last_warmup, now)
                 THEN [ wu EXCEPT !.child[p].pc = "done" ]
                 ELSE [ wu EXCEPT !.child[p].pc = "app" ]
        /\ ev' = NoEv
    /\ UNCHANGED << now, tz, caches, stats, pending, resp, hist, kreq, kout >>

\* what is seen of a step in which the retry loop of `path` catches `err`
Caught(path, err) ==
    [ NoEv EXCEPT !.op = "caught", !.path = path, !.error = err ]

\* a slip: the exception of the last attempt gets out of _warmup_endpoint and
\* of the gather, and ends the loop task
on_exception_aborts(w, p, err, t) ==
    IF w.child[p].attempt = WarmupConfig.retry_attempts - 1
    THEN [ w EXCEPT !.task = "finished",
                    !.child[p].pc = "done", !.child[p].attempt = 0 ]
    ELSE [ w EXCEPT !.child[p].pc = "retry_sleep" ]

\* the `except Exception as e` of the retry loop, entered with error err
on_exception(w, p, err, t) ==
    IF w.child[p].attempt = WarmupConfig.retry_attempts - 1
    THEN [ w EXCEPT !.warmup_stats = update_warmup_stats(@, p, FALSE, err, t),
                    !.child[p].pc = "done", !.child[p].attempt = 0 ]
    ELSE [ w EXCEPT !.child[p].pc = "retry_sleep" ]

\* a slip: stop() does not await the task it has cancelled
stop_returns_at_once(task) == task \in {"new", "gather", "interval_sleep", "finished", "cancelled"}

\* `await self._warmup_task` in stop() completes: the task has terminated
stop_may_return(task) == task \in {"finished", "cancelled"}

\* self.app(request) returns `response` to _warmup_endpoint, which runs to
\* its next suspension point or to its end
AppReturn(p, response) ==
    LET c      == wu.child[p]
        config == CACHE_CONFIGS[p]
        w1     == [ wu EXCEPT !.child[p].ok200 = TRUE ]
        w      == LRUCache_set(caches, stats,
                               generate_cache_key(create_warmup_request(p), config),
                               response.body, p, config, now)
    IN  /\ c.pc = "app" /\ ~ c.cancel
        /\ IF response.status = 200
           THEN IF "_generate_cache_key" \in LRUCache_attributes
                THEN IF w.raised # None
                     THEN /\ wu' = on_exception(w1, p, w.raised, now)
                          /\ ev' = Caught(p, w.raised)
                          /\ UNCHANGED << caches, stats >>
                     ELSE /\ caches' = w.caches
                          /\ stats' = w.stats
                          /\ ev' = NoEv
                          /\ wu' = [ w1 EXCEPT
                               !.warmup_stats = update_warmup_stats(@, p, TRUE, None, now),
                               !.last_warmup[p] = << now >>,
                               !.child[p].pc = "done", !.child[p].attempt = 0 ]
                ELSE \* self.cache._generate_cache_key raises AttributeError
                     /\ wu' = on_exception(w1, p, "AttributeError", now)
                     /\ ev' = Caught(p, "AttributeError")
                     /\ UNCHANGED << caches, stats >>
           ELSE \* no exception and no break: the next attempt, without a delay
                /\ wu' = IF c.attempt = WarmupConfig.retry_attempts - 1
                         THEN [ wu EXCEPT !.child[p].pc = "done", !.child[p].attempt = 0 ]
                         ELSE [ wu EXCEPT !.child[p].attempt = @ + 1 ]
                /\ ev' = NoEv
                /\ UNCHANGED << caches, stats >>
        /\ UNCHANGED << now, tz, pending, resp, hist, kreq, kout >>

\* self.app(request) raises HandlerError
AppRaise(p) ==
    /\ wu.child[p].pc = "app" /\ ~ wu.child[p].cancel
    /\ except_Exception_catches("HandlerError")
    /\ wu' = on_exception(wu, p, "HandlerError", now)
    /\ ev' = Caught(p, "HandlerError")
    /\ UNCHANGED << now, tz, caches, stats, pending, resp, hist, kreq, kout >>

\* asyncio.sleep(retry_delay) is over: the next attempt calls the handler
RetryWake(p) ==
    /\ wu.child[p].pc = "retry_sleep" /\ ~ wu.child[p].cancel
    /\ wu' = [ wu EXCEPT !.child[p].pc = "app", !.child[p].attempt = @ + 1 ]
    /\ ev' = NoEv
    /\ UNCHANGED << now, tz, caches, stats, pending, resp, hist, kreq, kout >>

\* every task of the batch is done: the gather returns, and the loop goes on
\* to the next batch or to `await asyncio.sleep(interval)`
GatherDone ==
    /\ wu.task = "gather" /\ ~ wu.must_cancel
    /\ \A p \in Batch(wu.batch) : wu.child[p].pc = "done"
    /\ wu' = IF wu.batch < NumBatches
             THEN spawn(wu, wu.batch + 1)
             ELSE [ wu EXCEPT !.task = "interval_sleep" ]
    /\ ev' = NoEv
    /\ UNCHANGED << now, tz, caches, stats, pending, resp, hist, kreq, kout >>

\* asyncio.sleep(interval) is over: the next round of the loop
IntervalWake ==
    /\ wu.task = "interval_sleep" /\ ~ wu.must_cancel
    /\ wu.round < MaxRounds
    /\ wu' = spawn([ wu EXCEPT !.round = @ + 1 ], 1)
    /\ ev' = NoEv
    /\ UNCHANGED << now, tz, caches, stats, pending, resp, hist, kreq, kout >>

\* CacheWarmup.stop(), to its `await self._warmup_task`: Task.cancel() marks
\* the loop task, and a task waiting in a gather passes the cancellation on to
\* the tasks of the gather that are not done
Stop ==
    /\ wu.stop = "idle"
    /\ wu' = IF wu.task = "none"
             THEN [ wu EXCEPT !.stop = "returned" ]
             ELSE [ wu EXCEPT
                      !.stop = "awaiting",
                      !.must_cancel = TRUE,
                      !.child = [ p \in WarmupPaths |->
                                    IF wu.task = "gather"
                                       /\ @[p].pc \in {"new", "app", "retry_sleep"}
                                    THEN [ @[p] EXCEPT !.cancel = TRUE ]
                                    ELSE @[p] ] ]
    /\ ev' = NoEv
    /\ UNCHANGED << now, tz, caches, stats, pending, resp, hist, kreq, kout >>

\* CancelledError is thrown into a cancelled _warmup_endpoint at its
\* suspension point: neither `except Exception` of the coroutine catches it,
\* and the task ends cancelled
ChildCancelled(p) ==
    /\ wu.child[p].cancel
    /\ wu.child[p].pc \in {"new", "app", "retry_sleep"}
    /\ ~ except_Exception_catches("CancelledError")
    /\ wu' = [ wu EXCEPT !.child[p] = Child("cancelled", 0, FALSE, @.ok200) ]
    /\ ev' = NoEv
    /\ UNCHANGED << now, tz, caches, stats, pending, resp, hist, kreq, kout >>

\* CancelledError reaches the loop task: a task that never ran ends
\* cancelled; in the gather and in the interval sleep
\* `except asyncio.CancelledError: break` ends the loop.  The cancelled tasks
\* of a gather are resumed, with CancelledError, ahead of the loop task in
\* the ready queue of the event loop, and the downstream call unwinds without
\* suspending again: the loop task runs once every task of the gather has
\* ended.  (`await asyncio.sleep(retry_delay)` of the loop's own
\* `except Exception` is never reached: _warmup_endpoint lets no Exception
\* out.)
LoopCancelled ==
    /\ wu.must_cancel
    /\ \/ /\ wu.task = "new"
          /\ wu' = [ wu EXCEPT !.task = "cancelled" ]
       \/ /\ wu.task = "gather"
          /\ \A p \in Batch(wu.batch) : wu.child[p].pc \in {"done", "cancelled"}
          /\ wu' = [ wu EXCEPT !.task = "finished" ]
       \/ /\ wu.task = "interval_sleep"
          /\ wu' = [ wu EXCEPT !.task = "finished" ]
    /\ ev' = NoEv
    /\ UNCHANGED << now, tz, caches, stats, pending, resp, hist, kreq, kout >>

\* `await self._warmup_task` completes; the CancelledError of a cancelled
\* task is caught, and stop() returns
StopReturn ==
    /\ wu.stop = "awaiting"
    /\ stop_may_return(wu.task)
    /\ wu' = [ wu EXCEPT !.stop = "returned" ]
    /\ ev' = NoEv
    /\ UNCHANGED << now, tz, caches, stats, pending, resp, hist, kreq, kout >>

\* what the handler answers a warmup request with
WarmupResponses == { Response(200, "warm"), Response(500, "error") }

NextWarm ==
    \/ Start
    \/ LoopRun
    \/ \E p \in WarmupPaths : ChildStart(p)
    \/ \E p \in WarmupPaths : \E response \in WarmupResponses : AppReturn(p, response)
    \/ \E p \in WarmupPaths : AppRaise(p)
    \/ \E p \in WarmupPaths : RetryWake(p)
    \/ GatherDone
    \/ IntervalWake
    \/ Stop
    \/ \E p \in WarmupPaths : ChildCancelled(p)
    \/ LoopCancelled
    \/ StopReturn

SpecWarm == Init /\ [][NextWarm]_vars

----------------------------------------------------------------------------
(* Claims on the warmup *)

\* the cache key of the synthetic request of path p
WarmupKey(p) == generate_cache_key(create_warmup_request(p), CACHE_CONFIGS[p])

\* a warmup request of the loop is in flight, or to be sent
InFlight(c) == c.pc \in {"new", "app", "retry_sleep"}

\* C18: stop() returns only after the loop task has terminated, wherever the
\* loop was suspended (in the gather of a batch, with endpoint coroutines in
\* the downstream call or in the retry delay, or in the interval sleep);
\* stop() raises nothing; and once it has returned no warmup request is in
\* flight and the loop changes neither the cache nor the statistics any more.
C18_StopAwaitsLoop ==
    [][ /\ ( wu'.stop = "returned" )
           => /\ wu'.task \in {"none", "finished", "cancelled"}
              /\ \A p \in WarmupPaths : ~ InFlight(wu'.child[p])
              /\ wu'.stop_raised = None
        /\ ( wu.stop = "returned" )
           => /\ caches' = caches /\ stats' = stats
              /\ wu'.child = wu.child
              /\ wu'.warmup_stats = wu.warmup_stats
              /\ wu'.stop = "returned" ]_vars

\* C18 witness: stop() has returned after cancelling the loop in a gather,
\* with one endpoint coroutine cancelled in its second or third attempt
\* while another of the batch had ended
C18_Witness ==
    /\ wu.stop = "returned"
    /\ wu.task = "finished"
    /\ wu.round = 1 /\ wu.batch = 1
    /\ \E p, q \in Batch(1) :
          /\ wu.child[p].pc = "cancelled"
          /\ wu.child[q].pc = "done"
          /\ StatsOf(wu.warmup_stats, q).failed_attempts = 1

\* C19: the attempt in which the downstream handler returns status 200 (after
\* N-1 failed attempts, N <= retry_attempts) ends the warming of the path with
\* a recorded success (successful_attempts incremented, the last-warmed
\* timestamp set, no failure recorded) and with an entry stored in the path's
\* table under the key of the synthetic request.
C19_Original ==
    [][ \A p \in WarmupPaths :
          ( ~ wu.child[p].ok200 /\ wu'.child[p].ok200 )
          => /\ wu'.child[p].pc = "done"
             /\ StatsOf(wu'.warmup_stats, p).successful_attempts
                  = StatsOf(wu.warmup_stats, p).successful_attempts + 1
             /\ StatsOf(wu'.warmup_stats, p).failed_attempts
                  = StatsOf(wu.warmup_stats, p).failed_attempts
             /\ wu'.last_warmup[p] # NoDate
             /\ HasKey(TableIn(caches', p), WarmupKey(p)) ]_vars

\* C20: a warming in which the downstream handler fails on all retry_attempts
\* attempts (a raised error or a status other than 200 each time) ends with
\* no entry for the key, exactly one more failure recorded for the path with
\* a non-null last_error, and the last-warmed timestamp as it was.
C20_Original ==
    [][ \A p \in WarmupPaths :
          ( wu.child[p].pc = "app" /\ wu'.child[p].pc = "done"
            /\ ~ wu'.child[p].ok200 )
          => /\ ~ HasKey(TableIn(caches', p), WarmupKey(p))
             /\ StatsOf(wu'.warmup_stats, p).failed_attempts
                  = StatsOf(wu.warmup_stats, p).failed_attempts + 1
             /\ StatsOf(wu'.warmup_stats, p).last_error # None
             /\ wu'.last_warmup[p] = wu.last_warmup[p] ]_vars

BatchOf(p) == CHOOSE b \in 1..NumBatches : p \in Batch(b)

\* C22: in every pass the endpoints are taken in ascending priority rank,
\* in consecutive batches of max_concurrent: when the coroutine of an
\* endpoint is started, the loop is at the batch of that endpoint, every
\* endpoint of an earlier batch has finished (none is in flight, cancelled or
\* not yet started) and has a rank lower than or equal to its own, and no
\* batch holds more than max_concurrent endpoints.
C22_BatchesInPriorityOrder ==
    [][ \A p \in WarmupPaths :
          ( wu.child[p].pc # "new" /\ wu'.child[p].pc = "new" )
          => /\ wu'.batch = BatchOf(p)
             /\ Cardinality(Batch(wu'.batch)) <= WarmupConfig.max_concurrent
             /\ \A q \in Batch(wu'.batch) : wu'.child[q].pc = "new"
             /\ \A q \in WarmupPaths :
                   /\ ( BatchOf(q) < BatchOf(p) )
                      => /\ wu'.child[q].pc = "done"
                         /\ WarmupEntry(q).priority <= WarmupEntry(p).priority
                   /\ ( WarmupEntry(q).priority < WarmupEntry(p).priority )
                      => BatchOf(q) <= BatchOf(p) ]_vars

\* C22 witness: an endpoint of the second batch is in its downstream call,
\* its rank is higher than that of an endpoint of the first batch, and the
\* endpoints of the first batch have finished, one of them with a failure
C22_Witness ==
    /\ wu.batch = 2 /\ wu.task = "gather"
    /\ \E p \in Batch(2) :
          /\ wu.child[p].pc = "app"
          /\ \E q \in Batch(1) : WarmupEntry(q).priority < WarmupEntry(p).priority
    /\ \A q \in Batch(1) : wu.child[q].pc = "done"
    /\ \E q \in Batch(1) : StatsOf(wu.warmup_stats, q).failed_attempts = 1

----------------------------------------------------------------------------
(* The re-warm test of _warmup_endpoint, on its own: the scheduler is in the *)
(* first batch of a pass, `now` and the last-warmed readings of the batch    *)
(* are drawn, and the coroutines of the batch start.                         *)

\* seconds elapsed since the last warm: around config.interval, around the
\* warmup_interval of the endpoints, and around one day
SkipElapsed ==
    { 0, 299, 300, 600, 1799, 1800, 86399, 86400, 86400 + 299, 86400 + 1800 }

InitSkip ==
    /\ now \in { e * TicksPerSec : e \in SkipElapsed }
    /\ tz = 0
    /\ caches = << >>
    /\ stats = [ hits |-> 0, misses |-> 0, evictions |-> 0 ]
    /\ pending = EmptyBag
    /\ resp = NoResp
    /\ ev = NoEv
    /\ hist = << >>
    /\ kreq = << >>
    /\ kout = << >>
    /\ \E lw \in [ Batch(1) -> { NoDate, << 0 >> } ] :
          wu = spawn([ WuInit EXCEPT
                         !.round = 1,
                         !.last_warmup = [ p \in WarmupPaths |->
                                             IF p \in Batch(1) THEN lw[p] ELSE NoDate ] ],
                     1)

NextSkip == \E p \in WarmupPaths : ChildStart(p)

SpecSkip == InitSkip /\ [][NextSkip]_vars

----------------------------------------------------------------------------
(* POST /cache/warm: warm_cache awaits _warmup_endpoints() of the same       *)
(* CacheWarmup object, in the task of the request, while the loop task may   *)
(* be in a pass of its own.                                                  *)

\* the scheduler as the coroutines of the forced pass see it
forced_view(w) == [ w EXCEPT !.child = w.fchild ]

\* the scheduler after a coroutine of the forced pass has turned
\* forced_view(w) into r
forced_back(r, w) == [ r EXCEPT !.fchild = r.child, !.child = w.child ]

\* warm_cache, to the gather of the first batch of its pass
WarmCache ==
    /\ wu.forced = "none"
    /\ wu' = [ wu EXCEPT !.forced = "gather", !.fbatch = 1,
                         !.fchild = [ p \in WarmupPaths |->
                                        IF p \in Batch(1)
                                        THEN Child("new", 0, FALSE, FALSE)
                                        ELSE @[p] ] ]
    /\ ev' = NoEv
    /\ UNCHANGED << now, tz, caches, stats, pending, resp, hist, kreq, kout >>

\* _warmup_endpoint of the forced pass, to its first `await self.app(request)`
ForcedChildStart(p) ==
    /\ wu.fchild[p].pc = "new"
    /\ wu' = IF warmed_recently(wu.last_warmup[p], now)
             THEN [ wu EXCEPT !.fchild[p].pc = "done" ]
             ELSE [ wu EXCEPT !.fchild[p].pc = "app" ]
    /\ ev' = NoEv
    /\ UNCHANGED << now, tz, caches, stats, pending, resp, hist, kreq, kout >>

\* self.app(request) returns `response` to a coroutine of the forced pass
ForcedAppReturn(p, response) ==
    LET c      == wu.fchild[p]
        config == CACHE_CONFIGS[p]
        w      == LRUCache_set(caches, stats,
                               generate_cache_key(create_warmup_request(p), config),
                               response.body, p, config, now)
    IN  /\ c.pc = "app"
        /\ IF response.status = 200
           THEN IF "_generate_cache_key" \in LRUCache_attributes
                THEN IF w.raised # None
                     THEN /\ wu' = forced_back(on_exception(forced_view(wu), p, w.raised, now), wu)
                          /\ UNCHANGED << caches, stats >>
                     ELSE /\ caches' = w.caches
                          /\ stats' = w.stats
                          /\ wu' = [ wu EXCEPT
                               !.warmup_stats = update_warmup_stats(@, p, TRUE, None, now),
                               !.last_warmup[p] = << now >>,
                               !.fchild[p].pc = "done", !.fchild[p].attempt = 0 ]
                ELSE /\ wu' = forced_back(on_exception(forced_view(wu), p, "AttributeError", now), wu)
                     /\ UNCHANGED << caches, stats >>
           ELSE /\ wu' = IF c.attempt = WarmupConfig.retry_attempts - 1
                         THEN [ wu EXCEPT !.fchild[p].pc = "done", !.fchild[p].attempt = 0 ]
                         ELSE [ wu EXCEPT !.fchild[p].attempt = @ + 1 ]
                /\ UNCHANGED << caches, stats >>
        /\ ev' = NoEv
        /\ UNCHANGED << now, tz, pending, resp, hist, kreq, kout >>

\* self.app(request) raises HandlerError in a coroutine of the forced pass
ForcedAppRaise(p) ==
    /\ wu.fchild[p].pc = "app"
    /\ except_Exception_catches("HandlerError")
    /\ wu' = forced_back(on_exception(forced_view(wu), p, "HandlerError", now), wu)
    /\ ev' = NoEv
    /\ UNCHANGED << now, tz, caches, stats, pending, resp, hist, kreq, kout >>

\* asyncio.sleep(retry_delay) of a coroutine of the forced pass is over
ForcedRetryWake(p) ==
    /\ wu.fchild[p].pc = "retry_sleep"
    /\ wu' = [ wu EXCEPT !.fchild[p].pc = "app", !.fchild[p].attempt = @ + 1 ]
    /\ ev' = NoEv
    /\ UNCHANGED << now, tz, caches, stats, pending, resp, hist, kreq, kout >>

\* the gather of the forced pass returns: the next batch, or warm_cache
\* returns its answer
ForcedGatherDone ==
    /\ wu.forced = "gather"
    /\ \A p \in Batch(wu.fbatch) : wu.fchild[p].pc = "done"
    /\ wu' = IF wu.fbatch < NumBatches
             THEN [ wu EXCEPT !.fbatch = @ + 1,
                              !.fchild = [ p \in WarmupPaths |->
                                             IF p \in Batch(wu.fbatch + 1)
                                             THEN Child("new", 0, FALSE, FALSE)
                                             ELSE @[p] ] ]
             ELSE [ wu EXCEPT !.forced = "returned" ]
    /\ ev' = NoEv
    /\ UNCHANGED << now, tz, caches, stats, pending, resp, hist, kreq, kout >>

\* the scheduled loop in its first pass, and one POST /cache/warm
NextForced ==
    \/ Start
    \/ LoopRun
    \/ \E p \in WarmupPaths : ChildStart(p)
    \/ \E p \in WarmupPaths : \E response \in WarmupResponses : AppReturn(p, response)
    \/ \E p \in WarmupPaths : AppRaise(p)
    \/ \E p \in WarmupPaths : RetryWake(p)
    \/ GatherDone
    \/ WarmCache
    \/ \E p \in WarmupPaths : ForcedChildStart(p)
    \/ \E p \in WarmupPaths : \E response \in WarmupResponses : ForcedAppReturn(p, response)
    \/ \E p \in WarmupPaths : ForcedAppRaise(p)
    \/ \E p \in WarmupPaths : ForcedRetryWake(p)
    \/ ForcedGatherDone

SpecForced == Init /\ [][NextForced]_vars

\* the warmup requests in flight against the downstream handler
AppCalls ==
    Cardinality({ p \in WarmupPaths : wu.child[p].pc = "app" })
    + Cardinality({ p \in WarmupPaths : wu.fchild[p].pc = "app" })

\* C24: at any moment at most max_concurrent warmup requests are in flight
\* against the downstream handler, the requests of a forced pass (POST
\* /cache/warm) that runs during a pass of the scheduled loop included.
C24_Original == AppCalls <= WarmupConfig.max_concurrent

\* C25: in one pass over one endpoint the downstream handler is invoked at
\* most retry_attempts times, it is not invoked again once it has returned
\* status 200, and an attempt after the first begins only out of the wait of
\* retry_delay, whether the attempt before it raised or returned a status
\* other than 200.
C25_Original ==
    [][ \A p \in WarmupPaths :
          /\ wu'.child[p].attempt < WarmupConfig.retry_attempts
          /\ ~ ( wu'.child[p].pc = "app" /\ wu.child[p].ok200 )
          /\ ( wu'.child[p].attempt = wu.child[p].attempt + 1 )
             => wu.child[p].pc = "retry_sleep" ]_vars

\* a downstream invocation for path p ends (returns or raises) in this step
InvocationEnds(p) ==
    /\ wu.child[p].pc = "app"
    /\ wu'.child[p] # wu.child[p]
    /\ ~ wu'.child[p].cancel /\ wu'.child[p].pc # "cancelled"

\* C26: the warmup state of a path counts its downstream invocations:
\* total_attempts of the path goes up by one with every invocation and with
\* nothing else, it is always the sum of successful_attempts and
\* failed_attempts, and the state of a path, once created, stays.
C26_Original ==
    [][ \A p \in WarmupPaths :
          /\ StatsOf(wu'.warmup_stats, p).total_attempts
               = StatsOf(wu.warmup_stats, p).total_attempts
                 + ( IF InvocationEnds(p) THEN 1 ELSE 0 )
          /\ StatsOf(wu'.warmup_stats, p).total_attempts
               = StatsOf(wu'.warmup_stats, p).successful_attempts
                 + StatsOf(wu'.warmup_stats, p).failed_attempts
          /\ ( p \in DOMAIN wu.warmup_stats ) => ( p \in DOMAIN wu'.warmup_stats ) ]_vars

\* C27: when the downstream handler answers a warmup request with status
\* 200, the warmup leaves in the shared cache what an organic miss leaves
\* for the same request and the same response: the tables after the step
\* are the tables that _cache_response gives for the key of the synthetic
\* request, with the entry of that key in the table of the path.
C27_Original ==
    [][ \A p \in WarmupPaths :
          ( ~ wu.child[p].ok200 /\ wu'.child[p].ok200 )
          => \E response \in { r \in WarmupResponses : r.status = 200 } :
                /\ caches' = cache_response(caches, stats, response, WarmupKey(p),
                                            p, CACHE_CONFIGS[p], now).caches
                /\ HasKey(TableIn(caches', p), WarmupKey(p)) ]_vars

----------------------------------------------------------------------------
(* The store operations on the tables of two paths, every delete and clear *)
(* included, with the clock at rest                                        *)

\* GET /health and GET /system/logs by one user
FrameRequests ==
    { Request("GET", path, "", "u1", None, None, NoDate) :
        path \in {"/health", "/system/logs"} }

NextFrame ==
    \/ \E req \in FrameRequests : Dispatch(req)
    \/ \E task \in BagToSet(pending) :
          \E response \in DownstreamResponses(task.auth) : DownstreamReturn(task, response)
    \/ \E task \in BagToSet(pending) : DownstreamRaise(task)
    \/ \E path \in PathsOf(FrameRequests) :
          \E key \in KeysOf2(FrameRequests, path) : Delete(key, path)
    \/ \E path \in PathsOf(FrameRequests) \cup {None} : Clear(path)

SpecFrame == Init /\ [][NextFrame]_vars


\* every table but the table of `path` is after the step what it was before
OtherTablesKept(path) ==
    \A q \in (DOMAIN caches \cup DOMAIN caches') \ {path} :
        TableIn(caches', q) = TableIn(caches, q)

\* C28: clear(path) leaves the table of the path empty, and every other
\* table and the hit, miss and eviction counters as they were; clear()
\* leaves every table empty and the counters as they were; and every other
\* step (the get of a lookup, the set of a store, a delete, for one path)
\* leaves the tables of all other paths as they were, entry by entry and in
\* the same order.
C28_TablesIndependent ==
    [][ /\ ( ev'.op = "clear" /\ ev'.path # None )
           => /\ TableIn(caches', ev'.path) = << >>
              /\ OtherTablesKept(ev'.path)
              /\ stats' = stats
        /\ ( ev'.op = "clear" /\ ev'.path = None )
           => /\ \A q \in DOMAIN caches \cup DOMAIN caches' : TableIn(caches', q) = << >>
              /\ stats' = stats
        /\ ( ev'.op # "clear" ) => OtherTablesKept(ev'.path) ]_vars

\* C28 witness: clear("/health") has run after two misses were stored and
\* one request was answered from the cache, and the table of /system/logs
\* still holds its entry
C28_Witness ==
    /\ ev.op = "clear" /\ ev.path = "/health"
    /\ "/health" \in DOMAIN caches /\ Table("/health") = << >>
    /\ Len(Table("/system/logs")) = 1
    /\ stats.misses = 2 /\ stats.hits = 1 /\ stats.evictions = 0
    /\ pending = EmptyBag

----------------------------------------------------------------------------
(* Two misses of one key in flight together: the second to return sets a key *)
(* that the first has stored.                                                *)

\* GET /health?param=i, as many queries as the table holds
RefreshRequests ==
    { Request("GET", "/health", "param=" \o ToString(i), "u1", None, None, NoDate) :
        i \in 1..MaxSize }

NextRefresh ==
    \/ \E req \in RefreshRequests : DispatchWithin(req, MaxRefreshPending)
    \/ \E task \in BagToSet(pending) :
          \E response \in DownstreamResponses(task.auth) : DownstreamReturn(task, response)
    \/ \E task \in BagToSet(pending) : DownstreamRaise(task)

SpecRefresh == Init /\ [][NextRefresh]_vars

\* C29: a set on a key that its table holds replaces the entry of that key
\* only: the table holds the same keys after it as before, max_size of them
\* if it held max_size, and the eviction counter keeps its value.
C29_Original ==
    [][ ( ev'.op = "stored" /\ HasKey(Table(ev'.path), ev'.key) )
        => /\ KeysOf(TableIn(caches', ev'.path)) = KeysOf(Table(ev'.path))
           /\ Len(TableIn(caches', ev'.path)) = Len(Table(ev'.path))
           /\ stats'.evictions = stats.evictions ]_vars

----------------------------------------------------------------------------
(* start() and stop() in any order, any number of times *)

\* where a loop task that has not ended can be
Alive == { "new", "gather", "interval_sleep" }

\* CacheWarmup.start(), whatever the scheduler is doing: the new task is
\* bound to self._warmup_task, and a task that was bound to it is neither
\* awaited nor cancelled.  The task left behind goes on with its coroutines
\* on its own, which the model does not follow any further; stop() can be
\* called again once it has returned.
StartAny ==
    /\ WarmupConfig.enabled
    /\ wu.stop # "awaiting"
    /\ wu.starts < MaxStarts
    /\ wu' = [ wu EXCEPT
                 !.task = "new",
                 !.starts = @ + 1,
                 !.must_cancel = FALSE,
                 !.orphans = IF wu.task \in Alive THEN @ + 1 ELSE @,
                 !.batch = 0,
                 !.round = 0,
                 !.child = [ p \in WarmupPaths |-> Child("idle", 0, FALSE, FALSE) ],
                 !.stop = "idle" ]
    /\ ev' = NoEv
    /\ UNCHANGED << now, tz, caches, stats, pending, resp, hist, kreq, kout >>

NextStartStop ==
    \/ StartAny
    \/ LoopRun
    \/ \E p \in WarmupPaths : ChildStart(p)
    \/ \E p \in WarmupPaths : \E response \in WarmupResponses : AppReturn(p, response)
    \/ \E p \in WarmupPaths : AppRaise(p)
    \/ \E p \in WarmupPaths : RetryWake(p)
    \/ GatherDone
    \/ Stop
    \/ \E p \in WarmupPaths : ChildCancelled(p)
    \/ LoopCancelled
    \/ StopReturn

SpecStartStop == Init /\ [][NextStartStop]_vars

\* the loop tasks that have not ended
AliveLoops == wu.orphans + ( IF wu.task \in Alive THEN 1 ELSE 0 )

\* C30: whatever start() and stop() calls have been made, at most one warmup
\* loop task is alive, and none is once a stop() has returned (until the
\* next start()).
C30_Original ==
    /\ AliveLoops <= 1
    /\ ( wu.stop = "returned" ) => ( AliveLoops = 0 )

====
